---- MODULE Spec2Model ----
(***************************************************************************)
(* A model of python-shell.py: pipeline descriptions (ShellCommandPipeline, *)
(* CombinedPipeline, FileInputPipeline, StreamInputPipeline), their         *)
(* composition operators, spawn, and the poll/wait/check logic of           *)
(* RunningCombinedPipeline.                                                 *)
(*                                                                          *)
(* Python values are encoded as follows.                                    *)
(*   - A pipeline description is a tuple whose first element is its class:  *)
(*       <<"cmd", argv, env>>, <<"comb", left, right>>,                     *)
(*       <<"file", input_filename, pipeline>>,                              *)
(*       <<"stream", input_stream, pipeline>>.                              *)
(*   - A dict is a set of <<key, value>> pairs; an env argument is a record *)
(*     [isNone, vars] so that None and {} stay distinct.                    *)
(*   - A file object held by the parent is an index into fds; a child       *)
(*     process is an index into procs (its Popen object).                   *)
(*   - A running handle is <<"popen", pid>> or                              *)
(*       <<"running", left, right, returncode, stdin, stdout, stderr>>.     *)
(***************************************************************************)
EXTENDS Integers, Sequences, FiniteSets, TLC

VARIABLES
    desc,       \* the pipeline description the caller holds
    phase,      \* "build" | "ready" | "running" | "failed" | "blocked" | "done",
                \* and "reading" | "waiting" inside output()
    procs,      \* the child processes started so far, with their Popen objects
    fds,        \* the file objects the parent has held, with their close() counts
    handle,     \* what spawn() returned to the caller
    spawnLog,   \* the spawn() calls made, in call order
    waitLog,    \* the timed two-stage waits made by the last wait(timeout)
    res,        \* the caller's last operation and what it returned or raised
    environ     \* os.environ

vars == <<desc, phase, procs, fds, handle, spawnLog, waitLog, res, environ>>

\* ------------------------------------------------------------------ bounds

\* Exit codes are 0..MaxCode.
MaxCode == 2
\* wait(timeout) is called with timeout in 0..MaxTimeout.
MaxTimeout == 1
\* During a blocking call a running child exits after 0..MaxDelay time units, or not at all.
MaxDelay == 1
\* Composition stops at descriptions nested MaxDepth deep.
MaxDepth == 3
\* A description is spawned at most MaxSpawns times.
MaxSpawns == 2

\* ---------------------------------------------------------------- constants

\* Python's None, where the field otherwise holds an integer.
None == -1
\* subprocess.PIPE
PIPE == -2

Max(a, b) == IF a >= b THEN a ELSE b

\* ------------------------------------------------------------ dict and env

NoEnv == [isNone |-> TRUE, vars |-> {}]
Dict(s) == [isNone |-> FALSE, vars |-> s]

\* Python truthiness of an env argument: None and {} are falsy.
Truthy(env) == ~env.isNone /\ env.vars # {}

\* `env or kwargs`
EnvOrKwargs(env, kwargs) == IF Truthy(env) THEN env ELSE Dict(kwargs)

\* dict.update: the pairs of b override those of a with the same key.
Update(a, b) == {p \in a : \A q \in b : q[1] # p[1]} \cup b

\* ------------------------------------------------------------ descriptions

ShellCommandPipeline(argv, env) == <<"cmd", argv, env>>
CombinedPipeline(left, right) == <<"comb", left, right>>
FileInputPipeline(input_filename, pipeline) == <<"file", input_filename, pipeline>>
StreamInputPipeline(input_stream, pipeline) == <<"stream", input_stream, pipeline>>

RECURSIVE Depth(_)
Depth(d) ==
    CASE d[1] = "cmd" -> 1
      [] d[1] = "comb" -> 1 + Max(Depth(d[2]), Depth(d[3]))
      [] OTHER -> 1 + Depth(d[3])

\* The command stages of a description, left to right.
RECURSIVE Stages(_)
Stages(d) ==
    CASE d[1] = "cmd" -> <<d>>
      [] d[1] = "comb" -> Stages(d[2]) \o Stages(d[3])
      [] OTHER -> Stages(d[3])

\* A composition operator returns [exc, val]: exc = "" and the new description,
\* or the exception raised.
Ret(v) == [exc |-> "", val |-> v]
Raise(e, v) == [exc |-> e, val |-> v]

\* Pipeline.__or__
Or(self, other) == Ret(CombinedPipeline(self, other))

\* with_env of the four classes. A StreamInputPipeline has no attribute
\* input_filename: evaluating the first constructor argument raises.
RECURSIVE WithEnv(_, _, _)
WithEnv(self, env, kwargs) ==
    LET e == EnvOrKwargs(env, kwargs) IN
    CASE self[1] = "cmd" -> Ret(ShellCommandPipeline(self[2], e))
      [] self[1] = "comb" ->
            LET l == WithEnv(self[2], e, {}) IN
            IF l.exc # "" THEN Raise(l.exc, self)
            ELSE LET r == WithEnv(self[3], e, {}) IN
                 IF r.exc # "" THEN Raise(r.exc, self)
                 ELSE Ret(CombinedPipeline(l.val, r.val))
      [] self[1] = "file" ->
            LET p == WithEnv(self[3], e, {}) IN
            IF p.exc # "" THEN Raise(p.exc, self)
            ELSE Ret(FileInputPipeline(self[2], p.val))
      [] OTHER -> Raise("AttributeError", self)

\* An in_from that pipes self into a pipeline source instead of the source into self.
InFromSwapped(self, input_stream) ==
    CASE input_stream[1] = "path" -> Ret(FileInputPipeline(input_stream[2], self))
      [] input_stream[1] = "pipeline" -> Or(self, input_stream[2])
      [] input_stream[1] = "stream" -> Ret(StreamInputPipeline(input_stream[2], self))
      [] OTHER -> Raise("TypeError", self)

\* Pipeline.in_from. The source is <<type, value>>: "path" (str, bytes,
\* os.PathLike), "pipeline", "stream" (None, an int, or an object with fileno),
\* or "other".
InFrom(self, input_stream) ==
    CASE input_stream[1] = "path" -> Ret(FileInputPipeline(input_stream[2], self))
      [] input_stream[1] = "pipeline" -> Or(input_stream[2], self)
      [] input_stream[1] = "stream" -> Ret(StreamInputPipeline(input_stream[2], self))
      [] OTHER -> Raise("TypeError", self)

\* ------------------------------------------------------- processes and files

NoHandle == <<"none">>

\* The stdin, stdout, stderr and returncode attributes of a handle.
HStdin(h, ps) == IF h[1] = "popen" THEN ps[h[2]].stdin ELSE h[5]
HStdout(h, ps) == IF h[1] = "popen" THEN ps[h[2]].stdout ELSE h[6]
HStderr(h, ps) == IF h[1] = "popen" THEN ps[h[2]].stderr ELSE h[7]
HReturncode(h, ps) == IF h[1] = "popen" THEN ps[h[2]].returncode ELSE h[4]

\* The command processes of a handle, left to right.
RECURSIVE Pids(_)
Pids(h) ==
    CASE h[1] = "popen" -> <<h[2]>>
      [] h[1] = "running" -> Pids(h[2]) \o Pids(h[3])
      [] OTHER -> <<>>

\* A new file object of the parent.
NewFd(kind) == [kind |-> kind, closes |-> 0]

\* file.close()
CloseFd(fs, k) == [fs EXCEPT ![k].closes = @ + 1]

\* The files open() finds.
ExistingFiles == {"data"}

\* The state spawn works on: the processes, the parent's file objects, the
\* number of Popen calls made, the spawn() calls logged and os.environ.
SpawnState(ps, fs, calls, log) ==
    [procs |-> ps, fds |-> fs, calls |-> calls, log |-> log, environ |-> environ]

\* What a spawn() returns: the state it leaves, and a handle or an exception.
SpawnRet(st, h) == [st |-> st, h |-> h, exc |-> ""]
SpawnRaise(st, e) == [st |-> st, h |-> NoHandle, exc |-> e]

LogCall(st, path, stdin, stdout, stderr) ==
    [st EXCEPT !.log = Append(@, [path |-> path, stdin |-> stdin,
                                  stdout |-> stdout, stderr |-> stderr])]

\* A Popen that hands out a pipe made for an earlier Popen when there is one.
PopenSharedPipe(st, argv, env, stdin, stdout, stderr, fails) ==
    IF fails THEN SpawnRaise([st EXCEPT !.calls = @ + 1], "OSError")
    ELSE
    LET n0 == Len(st.fds)
        old == {k \in 1..n0 : st.fds[k].kind = "pipe"}
        pin == IF stdin = PIPE THEN n0 + 1 ELSE None
        n1 == IF stdin = PIPE THEN n0 + 1 ELSE n0
        pout == IF stdout # PIPE THEN None
                ELSE IF old # {} THEN CHOOSE k \in old : \A j \in old : k <= j
                ELSE n1 + 1
        n2 == IF stdout = PIPE THEN n1 + 1 ELSE n1
        perr == IF stderr = PIPE THEN n2 + 1 ELSE None
        n3 == IF stderr = PIPE THEN n2 + 1 ELSE n2
        proc == [argv |-> argv, env |-> env,
                 cstdin |-> IF stdin = PIPE THEN pin ELSE stdin,
                 cstdout |-> IF stdout = PIPE THEN pout ELSE stdout,
                 cstderr |-> IF stderr = PIPE THEN perr ELSE stderr,
                 stdin |-> pin, stdout |-> pout, stderr |-> perr,
                 state |-> "running", code |-> None, returncode |-> None]
        st1 == [st EXCEPT !.procs = Append(@, proc),
                          !.fds = @ \o [i \in 1..(n3 - n0) |-> NewFd("pipe")],
                          !.calls = @ + 1]
    IN SpawnRet(st1, <<"popen", Len(st1.procs)>>)

\* subprocess.Popen(argv, stdin, stdout, stderr, env): for each stream given as
\* PIPE a pipe is made and the parent's end becomes the attribute of that name;
\* the other attributes are None. The child runs connected to what it was given.
\* A Popen that fails (the executable is missing, the OS refuses) raises OSError
\* and leaves nothing behind.
Popen(st, argv, env, stdin, stdout, stderr, fails) ==
    IF fails THEN SpawnRaise([st EXCEPT !.calls = @ + 1], "OSError")
    ELSE
    LET n0 == Len(st.fds)
        pin == IF stdin = PIPE THEN n0 + 1 ELSE None
        n1 == IF stdin = PIPE THEN n0 + 1 ELSE n0
        pout == IF stdout = PIPE THEN n1 + 1 ELSE None
        n2 == IF stdout = PIPE THEN n1 + 1 ELSE n1
        perr == IF stderr = PIPE THEN n2 + 1 ELSE None
        n3 == IF stderr = PIPE THEN n2 + 1 ELSE n2
        proc == [argv |-> argv, env |-> env,
                 cstdin |-> IF stdin = PIPE THEN pin ELSE stdin,
                 cstdout |-> IF stdout = PIPE THEN pout ELSE stdout,
                 cstderr |-> IF stderr = PIPE THEN perr ELSE stderr,
                 stdin |-> pin, stdout |-> pout, stderr |-> perr,
                 state |-> "running", code |-> None, returncode |-> None]
        st1 == [st EXCEPT !.procs = Append(@, proc),
                          !.fds = @ \o [i \in 1..(n3 - n0) |-> NewFd("pipe")],
                          !.calls = @ + 1]
    IN SpawnRet(st1, <<"popen", Len(st1.procs)>>)

\* A handle that takes its stdout from left instead of right.
RunningCombinedPipelineLeftOut(left, right, ps) ==
    <<"running", left, right, None, HStdin(left, ps), HStdout(left, ps), HStderr(right, ps)>>

\* RunningCombinedPipeline.__init__
RunningCombinedPipeline(left, right, ps) ==
    <<"running", left, right, None, HStdin(left, ps), HStdout(right, ps), HStderr(right, ps)>>

\* A command spawn that updates os.environ itself instead of a copy of it.
CommandSpawnInPlace(self, stdin, stdout, stderr, st, fails) ==
    IF self[3].isNone THEN Popen(st, self[2], NoEnv, stdin, stdout, stderr, fails)
    ELSE LET env == Update(st.environ, self[3].vars)
         IN Popen([st EXCEPT !.environ = env], self[2], Dict(env),
                  stdin, stdout, stderr, fails)

\* ShellCommandPipeline.spawn: with env None the child inherits os.environ;
\* otherwise it is given a copy of os.environ updated with env.
CommandSpawn(self, stdin, stdout, stderr, st, fails) ==
    LET copy == st.environ
        env == IF self[3].isNone THEN NoEnv
               ELSE Dict(Update(copy, self[3].vars))
    IN Popen(st, self[2], env, stdin, stdout, stderr, fails)

\* spawn of the four classes. failAt is the number of the Popen call that fails
\* (0: none does); path is the place of self in the description spawned.
RECURSIVE Spawn(_, _, _, _, _, _, _)

\* A combined spawn that gives right the caller's stdin instead of left's stdout.
CombinedSpawnUnwired(self, stdin, stdout, stderr, st, failAt, path) ==
    LET l == Spawn(self[2], stdin, PIPE, stderr, st, failAt, path \o <<1>>) IN
    IF l.exc # "" THEN SpawnRaise(l.st, l.exc)
    ELSE
    LET lout == HStdout(l.h, l.st.procs)
        r == Spawn(self[3], stdin, stdout, stderr, l.st, failAt, path \o <<2>>)
    IN IF r.exc # "" THEN SpawnRaise(r.st, r.exc)
       ELSE IF lout = None THEN SpawnRaise(r.st, "AttributeError")
       ELSE SpawnRet([r.st EXCEPT !.fds = CloseFd(@, lout)],
                     RunningCombinedPipeline(l.h, r.h, r.st.procs))

\* A combined spawn that does not close its copy of the internal pipe.
CombinedSpawnKeepsPipe(self, stdin, stdout, stderr, st, failAt, path) ==
    LET l == Spawn(self[2], stdin, PIPE, stderr, st, failAt, path \o <<1>>) IN
    IF l.exc # "" THEN SpawnRaise(l.st, l.exc)
    ELSE
    LET lout == HStdout(l.h, l.st.procs)
        r == Spawn(self[3], lout, stdout, stderr, l.st, failAt, path \o <<2>>)
    IN IF r.exc # "" THEN SpawnRaise(r.st, r.exc)
       ELSE IF lout = None THEN SpawnRaise(r.st, "AttributeError")
       ELSE SpawnRet(r.st, RunningCombinedPipeline(l.h, r.h, r.st.procs))

\* CombinedPipeline.spawn
CombinedSpawn(self, stdin, stdout, stderr, st, failAt, path) ==
    LET l == Spawn(self[2], stdin, PIPE, stderr, st, failAt, path \o <<1>>) IN
    IF l.exc # "" THEN SpawnRaise(l.st, l.exc)
    ELSE
    LET lout == HStdout(l.h, l.st.procs)
        r == Spawn(self[3], lout, stdout, stderr, l.st, failAt, path \o <<2>>)
    IN IF r.exc # "" THEN SpawnRaise(r.st, r.exc)
       ELSE IF lout = None THEN SpawnRaise(r.st, "AttributeError")
       ELSE SpawnRet([r.st EXCEPT !.fds = CloseFd(@, lout)],
                     RunningCombinedPipeline(l.h, r.h, r.st.procs))

\* A file-input spawn that closes the file only when the inner spawn returns.
FileInputSpawnLeaky(self, stdin, stdout, stderr, st, failAt, path) ==
    IF self[2] \notin ExistingFiles THEN SpawnRaise(st, "FileNotFoundError")
    ELSE
    LET input_file == Len(st.fds) + 1
        st1 == [st EXCEPT !.fds = Append(@, NewFd("file"))]
        r == Spawn(self[3], input_file, stdout, stderr, st1, failAt, path \o <<1>>)
    IN IF r.exc # "" THEN SpawnRaise(r.st, r.exc)
       ELSE SpawnRet([r.st EXCEPT !.fds = CloseFd(@, input_file)], r.h)

\* FileInputPipeline.spawn: the with statement closes the file when the inner
\* spawn returns and when it raises.
FileInputSpawn(self, stdin, stdout, stderr, st, failAt, path) ==
    IF self[2] \notin ExistingFiles THEN SpawnRaise(st, "FileNotFoundError")
    ELSE
    LET input_file == Len(st.fds) + 1
        st1 == [st EXCEPT !.fds = Append(@, NewFd("file"))]
        r == Spawn(self[3], input_file, stdout, stderr, st1, failAt, path \o <<1>>)
        st2 == [r.st EXCEPT !.fds = CloseFd(@, input_file)]
    IN IF r.exc # "" THEN SpawnRaise(st2, r.exc) ELSE SpawnRet(st2, r.h)

\* StreamInputPipeline.spawn
StreamInputSpawn(self, stdin, stdout, stderr, st, failAt, path) ==
    Spawn(self[3], self[2], stdout, stderr, st, failAt, path \o <<1>>)

Spawn(self, stdin, stdout, stderr, st, failAt, path) ==
    LET st1 == LogCall(st, path, stdin, stdout, stderr) IN
    CASE self[1] = "cmd" ->
            CommandSpawn(self, stdin, stdout, stderr, st1, failAt = st1.calls + 1)
      [] self[1] = "comb" -> CombinedSpawn(self, stdin, stdout, stderr, st1, failAt, path)
      [] self[1] = "file" -> FileInputSpawn(self, stdin, stdout, stderr, st1, failAt, path)
      [] OTHER -> StreamInputSpawn(self, stdin, stdout, stderr, st1, failAt, path)

\* ------------------------------------------------------------ poll and wait

\* The world a call of the parent runs in: the processes, the time t elapsed
\* since the call began, the fate of each child that is still running (it exits
\* with fate.code once fate.d time units have passed, or never within this call
\* when fate.d is None), and the timed two-stage waits logged.
World(ps, fate) == [procs |-> ps, t |-> 0, fate |-> fate, log |-> <<>>]

Exited(W, p) ==
    \/ W.procs[p].state = "exited"
    \/ W.fate[p].d # None /\ W.fate[p].d <= W.t

ExitCode(W, p) ==
    IF W.procs[p].state = "exited" THEN W.procs[p].code ELSE W.fate[p].code

\* What poll, wait and check return: the world and the handle as they leave
\* them, and the value returned or the exception raised.
CallRet(W, h, ret) == [W |-> W, h |-> h, ret |-> ret, exc |-> ""]
CallRaise(W, h, e) == [W |-> W, h |-> h, ret |-> None, exc |-> e]

Reap(W, p) == [W EXCEPT !.procs[p].returncode = ExitCode(W, p)]

\* Popen.poll
PopenPoll(W, h) ==
    LET p == h[2] IN
    IF W.procs[p].returncode # None THEN CallRet(W, h, W.procs[p].returncode)
    ELSE IF Exited(W, p) THEN CallRet(Reap(W, p), h, ExitCode(W, p))
    ELSE CallRet(W, h, None)

\* Popen.wait(timeout): returns once the child has exited; with a timeout it
\* raises TimeoutExpired when the child has not exited timeout time units after
\* the call. Without one it never returns if the child never exits.
PopenWait(W, h, timeout) ==
    LET p == h[2]
        at == IF W.procs[p].state = "exited" THEN W.t ELSE W.fate[p].d
        W1 == [W EXCEPT !.t = Max(@, at)]
    IN
    IF W.procs[p].returncode # None THEN CallRet(W, h, W.procs[p].returncode)
    ELSE IF timeout = None
    THEN IF at = None THEN CallRaise([W EXCEPT !.t = Max(@, MaxDelay)], h, "hang")
         ELSE CallRet(Reap(W1, p), h, ExitCode(W1, p))
    ELSE IF at # None /\ at <= W.t + timeout
         THEN CallRet(Reap(W1, p), h, ExitCode(W1, p))
         ELSE CallRaise([W EXCEPT !.t = @ + timeout], h, "TimeoutExpired")

\* A combination that reports the last stage, as a shell does by default.
PyOrLastStage(a, b) == IF b # None THEN b ELSE a

\* Python's `a or b` on return codes: a when a is neither None nor 0, else b.
PyOr(a, b) == IF a # None /\ a # 0 THEN a ELSE b

RECURSIVE Poll(_, _)

\* A poll that polls the children again although a code is cached.
PollUncached(W, h) ==
    IF h[1] = "popen" THEN PopenPoll(W, h)
    ELSE
    LET l == Poll(W, h[2])
        h1 == [h EXCEPT ![2] = l.h]
    IN IF l.ret = None THEN CallRet(l.W, h1, None)
       ELSE LET r == Poll(l.W, h[3])
                returncode == PyOr(l.ret, r.ret)
            IN CallRet(r.W, [h1 EXCEPT ![3] = r.h, ![4] = returncode], returncode)

\* RunningCombinedPipeline.poll
Poll(W, h) ==
    IF h[1] = "popen" THEN PopenPoll(W, h)
    ELSE IF h[4] # None THEN CallRet(W, h, h[4])
    ELSE
    LET l == Poll(W, h[2])
        h1 == [h EXCEPT ![2] = l.h]
    IN IF l.ret = None THEN CallRet(l.W, h1, None)
       ELSE LET r == Poll(l.W, h[3])
                returncode == PyOr(l.ret, r.ret)
            IN CallRet(r.W, [h1 EXCEPT ![3] = r.h, ![4] = returncode], returncode)

\* The timeout RunningCombinedPipeline.wait gives right's wait, from the
\* timeout it was given and the time left's wait took.
RemainingTimeout(timeout, elapsed) == Max(elapsed, 0)

RECURSIVE Wait(_, _, _)

\* A wait that polls before it lets TimeoutExpired out, as in a finally clause.
WaitCachesOnTimeout(W, h, timeout) ==
    IF h[1] = "popen" THEN PopenWait(W, h, timeout)
    ELSE IF h[4] # None THEN CallRet(W, h, h[4])
    ELSE
    LET start_time == W.t
        l == Wait(W, h[2], timeout)
        h1 == [h EXCEPT ![2] = l.h]
    IN
    IF l.exc # "" THEN CallRaise(l.W, Poll(l.W, h1).h, l.exc)
    ELSE
    LET given == IF timeout = None THEN None
                 ELSE RemainingTimeout(timeout, l.W.t - start_time)
        W1 == IF timeout = None THEN l.W
              ELSE [l.W EXCEPT !.log = Append(@, [timeout |-> timeout,
                                                  elapsed |-> l.W.t - start_time,
                                                  given |-> given])]
        r == Wait(W1, h[3], given)
        h2 == [h1 EXCEPT ![3] = r.h]
    IN IF r.exc # "" THEN CallRaise(r.W, Poll(r.W, h2).h, r.exc)
       ELSE Poll(r.W, h2)

\* RunningCombinedPipeline.wait
Wait(W, h, timeout) ==
    IF h[1] = "popen" THEN PopenWait(W, h, timeout)
    ELSE IF h[4] # None THEN CallRet(W, h, h[4])
    ELSE
    LET start_time == W.t
        l == Wait(W, h[2], timeout)
        h1 == [h EXCEPT ![2] = l.h]
    IN
    IF l.exc # "" THEN CallRaise(l.W, h1, l.exc)
    ELSE
    LET given == IF timeout = None THEN None
                 ELSE RemainingTimeout(timeout, l.W.t - start_time)
        W1 == IF timeout = None THEN l.W
              ELSE [l.W EXCEPT !.log = Append(@, [timeout |-> timeout,
                                                  elapsed |-> l.W.t - start_time,
                                                  given |-> given])]
        r == Wait(W1, h[3], given)
        h2 == [h1 EXCEPT ![3] = r.h]
    IN IF r.exc # "" THEN CallRaise(r.W, h2, r.exc)
       ELSE Poll(r.W, h2)

RECURSIVE CheckReturnCode(_, _)

\* A check that looks at right before left.
CheckReturnCodeRightFirst(h, ps) ==
    IF h[1] = "popen"
    THEN IF ps[h[2]].returncode # None /\ ps[h[2]].returncode # 0
         THEN [raised |-> TRUE, code |-> ps[h[2]].returncode, pid |-> h[2]]
         ELSE [raised |-> FALSE, code |-> None, pid |-> None]
    ELSE LET r == CheckReturnCode(h[3], ps) IN
         IF r.raised THEN r ELSE CheckReturnCode(h[2], ps)

\* check_return_code, and RunningCombinedPipeline.check_return_code: raises
\* CalledProcessError(returncode, args) of the first child, left to right,
\* whose returncode is neither None nor 0. [raised, code, pid]
CheckReturnCode(h, ps) ==
    IF h[1] = "popen"
    THEN IF ps[h[2]].returncode # None /\ ps[h[2]].returncode # 0
         THEN [raised |-> TRUE, code |-> ps[h[2]].returncode, pid |-> h[2]]
         ELSE [raised |-> FALSE, code |-> None, pid |-> None]
    ELSE LET l == CheckReturnCode(h[2], ps) IN
         IF l.raised THEN l ELSE CheckReturnCode(h[3], ps)

\* The processes as a call leaves them: a child whose time has come has exited.
Settle(W) ==
    [p \in DOMAIN W.procs |->
        IF W.procs[p].state = "running" /\ Exited(W, p)
        THEN [W.procs[p] EXCEPT !.state = "exited", !.code = W.fate[p].code]
        ELSE W.procs[p]]

\* ------------------------------------------------------- capture and decode

\* What a captured pipeline may have written to its stdout.
Outputs == {<<>>, <<104, 105, 10>>, <<104, 10, 105>>, <<255, 10>>}

\* bytes.decode(): UTF-8; a byte above 127 that begins no valid sequence raises
\* UnicodeDecodeError. The text is the sequence of code points.
Decode(bytes) ==
    IF \E i \in DOMAIN bytes : bytes[i] > 127
    THEN [exc |-> "UnicodeDecodeError", val |-> <<>>]
    ELSE [exc |-> "", val |-> bytes]

\* str.splitlines(): the text cut at each line feed, the line feeds dropped,
\* no empty last line after a final line feed.
RECURSIVE SplitLines(_)
SplitLines(text) ==
    IF text = <<>> THEN <<>>
    ELSE IF \E i \in DOMAIN text : text[i] = 10
    THEN LET i == CHOOSE j \in DOMAIN text :
                      text[j] = 10 /\ \A k \in 1..(j - 1) : text[k] # 10
         IN <<SubSeq(text, 1, i - 1)>> \o SplitLines(SubSeq(text, i + 1, Len(text)))
    ELSE <<text>>

\* ------------------------------------------------------------------ results

Result(op, outcome, value) ==
    [op |-> op, outcome |-> outcome, value |-> value, code |-> None, pid |-> None,
     bytes |-> <<>>, text |-> <<>>, lines |-> <<>>]

Outcome(exc) == IF exc = "" THEN "ok" ELSE exc

\* ------------------------------------------------------------------ inputs

Codes == 0..MaxCode
Timeouts == 0..MaxTimeout
Delays == 0..MaxDelay

\* The fates of the children during one call: only a running child has one to
\* choose, the others are given fate [d |-> 0, code |-> 0], which nothing reads.
Running(ps) == {p \in DOMAIN ps : ps[p].state = "running"}
Fates(ps, delays) ==
    {[p \in DOMAIN ps |-> IF p \in DOMAIN g THEN g[p] ELSE [d |-> 0, code |-> 0]] :
        g \in [Running(ps) -> [d : delays, code : Codes]]}

\* No child exits during the call.
NoExit(ps) == [p \in DOMAIN ps |-> [d |-> None, code |-> 0]]

\* Every child exits during the call, with the code given.
AllExit(codes) == [p \in DOMAIN codes |-> [d |-> 0, code |-> codes[p]]]

Env0 == {<<"HOME", "/root">>, <<"LANG", "C">>}

CmdA == ShellCommandPipeline(<<"/bin/a">>, NoEnv)
CmdB == ShellCommandPipeline(<<"/bin/b">>, NoEnv)
CmdC == ShellCommandPipeline(<<"/bin/c">>, Dict({<<"LANG", "en">>}))

\* The caller's own open stream is file object 1.
CallerStream == 1

\* The descriptions spawned: each is built from commands by |, in_from and with_env.
Pipelines ==
    { CmdA,
      CombinedPipeline(CmdA, CmdB),
      CombinedPipeline(CombinedPipeline(CmdA, CmdB), CmdC),
      CombinedPipeline(CmdA, CombinedPipeline(CmdB, CmdC)),
      FileInputPipeline("data", CmdA),
      FileInputPipeline("missing", CmdA),
      FileInputPipeline("data", CombinedPipeline(CmdA, CmdB)),
      StreamInputPipeline(CallerStream, CmdB),
      CombinedPipeline(CmdA, StreamInputPipeline(None, CmdB)) }

\* The redirections spawn is called with.
SpawnArgs ==
    { [stdin |-> None, stdout |-> None, stderr |-> None],
      [stdin |-> PIPE, stdout |-> PIPE, stderr |-> PIPE],
      [stdin |-> CallerStream, stdout |-> PIPE, stderr |-> None] }

\* ------------------------------------------------------------------ actions

NoResult == Result("", "", None)

InitState ==
    /\ procs = <<>>
    /\ fds = <<NewFd("stream")>>
    /\ handle = NoHandle
    /\ spawnLog = <<>>
    /\ waitLog = <<>>
    /\ res = NoResult
    /\ environ = Env0

\* The caller holds a description and has started nothing.
Init ==
    /\ desc \in Pipelines
    /\ phase = "ready"
    /\ InitState

\* pipeline = desc.spawn(stdin, stdout, stderr)
DoSpawn(a, failAt) ==
    /\ phase = "ready"
    /\ LET r == Spawn(desc, a.stdin, a.stdout, a.stderr,
                      SpawnState(procs, fds, 0, <<>>), failAt, <<>>)
       IN /\ procs' = r.st.procs
          /\ fds' = r.st.fds
          /\ spawnLog' = r.st.log
          /\ handle' = r.h
          /\ phase' = IF r.exc = "" THEN "running" ELSE "failed"
          /\ res' = Result("spawn", Outcome(r.exc), None)
          /\ environ' = r.st.environ
    /\ UNCHANGED <<desc, waitLog>>

\* A child process exits on its own.
ChildExit(p, c) ==
    /\ phase = "running"
    /\ procs[p].state = "running"
    /\ procs' = [procs EXCEPT ![p].state = "exited", ![p].code = c]
    /\ UNCHANGED <<desc, phase, fds, handle, spawnLog, waitLog, res, environ>>

\* pipeline.poll()
DoPoll ==
    /\ phase = "running"
    /\ LET r == Poll(World(procs, NoExit(procs)), handle)
       IN /\ procs' = r.W.procs
          /\ handle' = r.h
          /\ res' = Result("poll", "ok", r.ret)
    /\ waitLog' = <<>>
    /\ UNCHANGED <<desc, phase, fds, spawnLog, environ>>

\* pipeline.wait(timeout), while the children meet the fate given
DoWait(timeout, fate) ==
    /\ phase = "running"
    /\ LET r == Wait(World(procs, fate), handle, timeout)
       IN /\ procs' = Settle(r.W)
          /\ handle' = r.h
          /\ waitLog' = r.W.log
          /\ res' = Result("wait", Outcome(r.exc), r.ret)
          /\ phase' = IF r.exc = "hang" THEN "blocked" ELSE phase
    /\ UNCHANGED <<desc, fds, spawnLog, environ>>

\* check_return_code(pipeline)
DoCheck ==
    /\ phase = "running"
    /\ LET r == CheckReturnCode(handle, procs)
       IN res' = [Result("check", IF r.raised THEN "CalledProcessError" ELSE "ok", None)
                     EXCEPT !.code = r.code, !.pid = r.pid]
    /\ waitLog' = <<>>
    /\ UNCHANGED <<desc, phase, procs, fds, handle, spawnLog, environ>>

\* A rendering that checks without waiting.
ReprUnwaited(self, st, failAt, codes) ==
    LET s == Spawn(self, None, None, None, st, failAt, <<>>) IN
    IF s.exc # "" THEN [st |-> s.st, h |-> s.h, res |-> Result("repr", s.exc, None)]
    ELSE
    LET c == CheckReturnCode(s.h, s.st.procs)
    IN [st |-> s.st, h |-> s.h,
        res |-> [Result("repr", IF c.raised THEN "CalledProcessError" ELSE "ok", None)
                    EXCEPT !.code = c.code, !.pid = c.pid]]

\* Pipeline.__repr__: spawn, wait, check. [st, h, res]
Repr(self, st, failAt, codes) ==
    LET s == Spawn(self, None, None, None, st, failAt, <<>>) IN
    IF s.exc # "" THEN [st |-> s.st, h |-> s.h, res |-> Result("repr", s.exc, None)]
    ELSE
    LET w == Wait(World(s.st.procs, AllExit(codes)), s.h, None)
        ps == Settle(w.W)
        c == CheckReturnCode(w.h, ps)
    IN [st |-> [s.st EXCEPT !.procs = ps], h |-> w.h,
        res |-> [Result("repr", IF c.raised THEN "CalledProcessError" ELSE "ok", None)
                    EXCEPT !.code = c.code, !.pid = c.pid]]

DoRepr(failAt, codes) ==
    /\ phase = "ready"
    /\ LET r == Repr(desc, SpawnState(procs, fds, 0, <<>>), failAt, codes)
       IN /\ procs' = r.st.procs
          /\ fds' = r.st.fds
          /\ spawnLog' = r.st.log
          /\ handle' = r.h
          /\ res' = r.res
          /\ environ' = r.st.environ
    /\ phase' = "done"
    /\ UNCHANGED <<desc, waitLog>>

\* Pipeline.raw_output: spawn with stdout captured, read to end of stream,
\* close, wait, return what was read. [st, h, res]
RawOutput(self, st, failAt, codes, written) ==
    LET s == Spawn(self, None, PIPE, None, st, failAt, <<>>) IN
    IF s.exc # "" THEN [st |-> s.st, h |-> s.h, res |-> Result("raw_output", s.exc, None)]
    ELSE
    LET out == HStdout(s.h, s.st.procs) IN
    IF out = None
    THEN [st |-> s.st, h |-> s.h, res |-> Result("raw_output", "AttributeError", None)]
    ELSE
    LET w == Wait(World(s.st.procs, AllExit(codes)), s.h, None)
    IN [st |-> [s.st EXCEPT !.procs = Settle(w.W), !.fds = CloseFd(@, out)], h |-> w.h,
        res |-> [Result("raw_output", "ok", None) EXCEPT !.bytes = written]]

\* Pipeline.output
Output(self, st, failAt, codes, written) ==
    LET r == RawOutput(self, st, failAt, codes, written)
        t == Decode(r.res.bytes)
    IN IF r.res.outcome # "ok" THEN [r EXCEPT !.res.op = "output"]
       ELSE IF t.exc # "" THEN [r EXCEPT !.res = Result("output", t.exc, None)]
       ELSE [r EXCEPT !.res = [Result("output", "ok", None) EXCEPT !.text = t.val]]

\* Pipeline.lines
Lines(self, st, failAt, codes, written) ==
    LET r == Output(self, st, failAt, codes, written)
    IN IF r.res.outcome # "ok" THEN [r EXCEPT !.res.op = "lines"]
       ELSE [r EXCEPT !.res = [Result("lines", "ok", None)
                                  EXCEPT !.lines = SplitLines(r.res.text)]]

Captured(r) ==
    /\ procs' = r.st.procs
    /\ fds' = r.st.fds
    /\ spawnLog' = r.st.log
    /\ handle' = r.h
    /\ res' = r.res
    /\ environ' = r.st.environ
    /\ phase' = "done"
    /\ UNCHANGED <<desc, waitLog>>

DoRawOutput(failAt, codes, written) ==
    /\ phase = "ready"
    /\ Captured(RawOutput(desc, SpawnState(procs, fds, 0, <<>>), failAt, codes, written))

DoOutput(failAt, codes, written) ==
    /\ phase = "ready"
    /\ Captured(Output(desc, SpawnState(procs, fds, 0, <<>>), failAt, codes, written))

DoLines(failAt, codes, written) ==
    /\ phase = "ready"
    /\ Captured(Lines(desc, SpawnState(procs, fds, 0, <<>>), failAt, codes, written))

NumStages == Len(Stages(desc))
StageCodes == [1..NumStages -> Codes]

Next ==
    \/ \E a \in SpawnArgs, failAt \in 0..NumStages : DoSpawn(a, failAt)
    \/ \E p \in DOMAIN procs, c \in Codes : ChildExit(p, c)
    \/ DoPoll
    \/ \E fate \in Fates(procs, {0, None}) : DoWait(None, fate)
    \/ \E timeout \in Timeouts, fate \in Fates(procs, Delays \cup {None}) :
          DoWait(timeout, fate)
    \/ DoCheck
    \/ \E failAt \in 0..NumStages, codes \in StageCodes : DoRepr(failAt, codes)
    \/ \E failAt \in 0..NumStages, codes \in StageCodes, written \in Outputs :
          DoRawOutput(failAt, codes, written)
    \/ \E failAt \in 0..NumStages, codes \in StageCodes, written \in Outputs :
          DoOutput(failAt, codes, written)
    \/ \E failAt \in 0..NumStages, codes \in StageCodes, written \in Outputs :
          DoLines(failAt, codes, written)

Spec == Init /\ [][Next]_vars

\* -------------------------------------------------------------- composition

\* The env and keyword arguments with_env is called with.
EnvArgs == {NoEnv, Dict({}), Dict({<<"LANG", "en">>}), Dict({<<"TZ", "UTC">>})}
KwArgs == {{}, {<<"TERM", "dumb">>}}

\* The sources in_from is called with, by type.
PathSources == {<<"path", "data">>, <<"path", "missing">>}
PipelineSources == {<<"pipeline", CmdB>>}
StreamSources == {<<"stream", None>>, <<"stream", CallerStream>>}
OtherSources == {<<"other", None>>}

\* The caller holds a single command and composes from it.
InitCompose ==
    /\ desc \in {CmdA, CmdC}
    /\ phase = "build"
    /\ InitState

\* desc = <operator applied to desc>, which returned or raised r
Composed(op, r) ==
    /\ phase = "build"
    /\ Depth(r.val) <= MaxDepth
    /\ desc' = r.val
    /\ res' = Result(op, Outcome(r.exc), None)
    /\ UNCHANGED <<phase, procs, fds, handle, spawnLog, waitLog, environ>>

\* desc.with_env(env, **kwargs)
DoWithEnv(env, kwargs) == Composed("with_env", WithEnv(desc, env, kwargs))

\* desc | other
DoOr(other) == Composed("or", Or(desc, other))

\* desc.in_from(path)
DoInFromPath(src) == Composed("in_from", InFrom(desc, src))

\* desc.in_from(pipeline)
DoInFromPipeline(src) == Composed("in_from", InFrom(desc, src))

\* desc.in_from(stream)
DoInFromStream(src) == Composed("in_from", InFrom(desc, src))

\* desc.in_from(something else)
DoInFromOther(src) == Composed("in_from_other", InFrom(desc, src))

NextCompose ==
    \/ \E env \in EnvArgs, kwargs \in KwArgs : DoWithEnv(env, kwargs)
    \/ \E other \in {CmdB} : DoOr(other)
    \/ \E src \in PathSources : DoInFromPath(src)
    \/ \E src \in PipelineSources : DoInFromPipeline(src)
    \/ \E src \in StreamSources : DoInFromStream(src)
    \/ \E src \in OtherSources : DoInFromOther(src)

SpecCompose == InitCompose /\ [][NextCompose]_vars

\* ------------------------------------------------------------------ respawn

\* The number of spawn() calls the caller has made on desc.
Spawns == IF res.op # "spawn" THEN 0 ELSE IF res.value = None THEN 1 ELSE res.value

\* pipeline = desc.spawn(stdin, stdout, stderr), on a description spawned
\* before; the processes and file objects of the earlier runs are still there.
DoSpawnAgain(a, failAt) ==
    /\ phase \in {"running", "failed"}
    /\ Spawns \in 1..(MaxSpawns - 1)
    /\ LET r == Spawn(desc, a.stdin, a.stdout, a.stderr,
                      SpawnState(procs, fds, 0, <<>>), failAt, <<>>)
       IN /\ procs' = r.st.procs
          /\ fds' = r.st.fds
          /\ spawnLog' = r.st.log
          /\ handle' = r.h
          /\ phase' = IF r.exc = "" THEN "running" ELSE "failed"
          /\ res' = Result("spawn", Outcome(r.exc), Spawns + 1)
          /\ environ' = r.st.environ
    /\ UNCHANGED <<desc, waitLog>>

NextRespawn ==
    \/ \E a \in SpawnArgs, failAt \in 0..NumStages : DoSpawn(a, failAt)
    \/ \E a \in SpawnArgs, failAt \in 0..NumStages : DoSpawnAgain(a, failAt)

SpecRespawn == Init /\ [][NextRespawn]_vars

\* ------------------------------------------------- capture, step by step

\* output() as the parent goes through it, with the children running beside
\* it: spawn with stdout captured, read to end of stream and close, wait for
\* left and then right, decode. phase is "reading" while the parent is in
\* stdout.read() and "waiting" while it is in wait().

IsPipe(k) == k \in DOMAIN fds /\ fds[k].kind = "pipe"

\* The running processes that write to pipe k, and those that read from it.
Writers(k) ==
    {p \in DOMAIN procs : procs[p].state = "running"
                            /\ (procs[p].cstdout = k \/ procs[p].cstderr = k)}
Readers(k) == {p \in DOMAIN procs : procs[p].state = "running" /\ procs[p].cstdin = k}

\* The stdin of process p is at end of stream: a pipe is when no end to write
\* to it is open any more (the parent's, if the parent holds one, and those of
\* the running writers); a file and a stream of the caller are taken to end.
AtEof(p) ==
    LET k == procs[p].cstdin IN
    IF ~IsPipe(k) THEN TRUE
    ELSE IF procs[p].stdin = k THEN fds[k].closes > 0
    ELSE Writers(k) = {}

\* The stdout of process p is a pipe with no end to read from it open: the
\* parent has closed its own and no running process has one.
NoReader(p) ==
    LET k == procs[p].cstdout IN
    IsPipe(k) /\ fds[k].closes > 0 /\ Readers(k) = {}

\* Process p can write what it has to write: its stdout is no pipe, or the pipe
\* is being read, by the parent in stdout.read() or by a running process that
\* is not itself kept from writing.
RECURSIVE CanWrite(_)
CanWrite(p) ==
    LET k == procs[p].cstdout IN
    \/ ~IsPipe(k)
    \/ phase = "reading" /\ k = HStdout(handle, procs)
    \/ \E q \in Readers(k) : CanWrite(q)

\* A stage exits once its stdout pipe has no reader left, or once its stdin
\* has reached end of stream and it has written its output.
MustExit(p) ==
    /\ p \in DOMAIN procs
    /\ procs[p].state = "running"
    /\ (NoReader(p) \/ (AtEof(p) /\ CanWrite(p)))

\* pipeline = self.spawn(stdout=subprocess.PIPE)
CaptureSpawn(failAt) ==
    /\ phase = "ready"
    /\ LET s == Spawn(desc, None, PIPE, None, SpawnState(procs, fds, 0, <<>>), failAt, <<>>)
       IN /\ procs' = s.st.procs
          /\ fds' = s.st.fds
          /\ spawnLog' = s.st.log
          /\ handle' = s.h
          /\ environ' = s.st.environ
          /\ phase' = IF s.exc = "" THEN "reading" ELSE "done"
          /\ res' = Result("output", IF s.exc = "" THEN "reading" ELSE s.exc, None)
    /\ UNCHANGED <<desc, waitLog>>

\* A child process exits, while the parent is in output().
StageExit(p, c) ==
    /\ phase \in {"reading", "waiting"}
    /\ procs[p].state = "running"
    /\ procs' = [procs EXCEPT ![p].state = "exited", ![p].code = c]
    /\ UNCHANGED <<desc, phase, fds, handle, spawnLog, waitLog, res, environ>>

\* result = pipeline.stdout.read(); pipeline.stdout.close(): read returns at
\* end of stream, when no process holds the pipe open for writing.
CaptureRead(written) ==
    /\ phase = "reading"
    /\ Writers(HStdout(handle, procs)) = {}
    /\ fds' = CloseFd(fds, HStdout(handle, procs))
    /\ res' = [res EXCEPT !.outcome = "waiting", !.bytes = written]
    /\ phase' = "waiting"
    /\ UNCHANGED <<desc, procs, handle, spawnLog, waitLog, environ>>

\* The child pipeline.wait() is waiting on: the first, left to right, whose
\* return code is not recorded yet; None when every one is.
Awaited(h, ps) ==
    LET pids == Pids(h)
        un == {i \in DOMAIN pids : ps[pids[i]].returncode = None}
    IN IF un = {} THEN None ELSE pids[CHOOSE i \in un : \A j \in un : i <= j]

\* pipeline.wait(), one child on: on a handle just spawned wait() waits on
\* the children left to right; the wait on the child it has reached returns when
\* that child has exited, and records its code.
CaptureWait ==
    /\ phase = "waiting"
    /\ Awaited(handle, procs) # None
    /\ procs[Awaited(handle, procs)].state = "exited"
    /\ procs' = [procs EXCEPT ![Awaited(handle, procs)].returncode
                                  = procs[Awaited(handle, procs)].code]
    /\ UNCHANGED <<desc, phase, fds, handle, spawnLog, waitLog, res, environ>>

\* pipeline.wait() returns, every child waited on: each wait() ends with
\* return self.poll(), which sets the returncode of its handle; then
\* return result.decode()
CaptureReturn ==
    /\ phase = "waiting"
    /\ Awaited(handle, procs) = None
    /\ handle' = Poll(World(procs, NoExit(procs)), handle).h
    /\ phase' = "done"
    /\ res' = IF Decode(res.bytes).exc # ""
              THEN Result("output", Decode(res.bytes).exc, None)
              ELSE [Result("output", "ok", None) EXCEPT !.text = Decode(res.bytes).val]
    /\ UNCHANGED <<desc, procs, fds, spawnLog, waitLog, environ>>

NextCapture ==
    \/ \E failAt \in 0..NumStages : CaptureSpawn(failAt)
    \/ \E p \in DOMAIN procs, c \in Codes : StageExit(p, c)
    \/ \E written \in Outputs : CaptureRead(written)
    \/ CaptureWait
    \/ CaptureReturn

\* The most processes a description of Pipelines starts.
MostStages ==
    LET n == {Len(Stages(d)) : d \in Pipelines} IN CHOOSE m \in n : \A k \in n : k <= m

\* The parent goes on when the call it is in returns, and the operating
\* system runs every child: a stage that must exit does. A stage may also exit
\* earlier, of its own accord. spawn() waits for nothing.
FairCapture ==
    /\ WF_vars(\E written \in Outputs : CaptureRead(written))
    /\ WF_vars(CaptureWait)
    /\ WF_vars(CaptureReturn)
    /\ \A p \in 1..MostStages : WF_vars(\E c \in Codes : MustExit(p) /\ StageExit(p, c))

SpecCapture == Init /\ [][NextCapture]_vars /\ FairCapture

\* ------------------------------------------------------------------- claims

AllExited(h, ps) == \A i \in DOMAIN Pids(h) : ps[Pids(h)[i]].state = "exited"

\* The left-biased combination of the exit codes the processes of a handle
\* ended with: left's if it is not 0, else right's.
RECURSIVE LeftBiased(_, _)
LeftBiased(h, ps) ==
    IF h[1] = "popen" THEN ps[h[2]].code
    ELSE IF LeftBiased(h[2], ps) # 0 THEN LeftBiased(h[2], ps)
    ELSE LeftBiased(h[3], ps)

\* C1: when every child of a running combined handle has exited, poll() and
\* wait() return left's exit code if it is not 0 and right's otherwise,
\* whatever the codes and the order of the exits.
C1_LeftBiasedCode ==
    [][ /\ (DoPoll /\ handle[1] = "running" /\ AllExited(handle, procs))
            => res'.value = LeftBiased(handle, procs)
        /\ (res'.op = "wait" /\ res'.outcome = "ok" /\ handle'[1] = "running"
               /\ AllExited(handle', procs'))
            => /\ res'.value = LeftBiased(handle', procs')
               /\ handle'[4] = res'.value ]_vars

C1_Witness ==
    /\ res.op = "poll"
    /\ handle[1] = "running" /\ handle[2][1] = "popen" /\ handle[3][1] = "popen"
    /\ AllExited(handle, procs)
    /\ procs[handle[2][2]].code = 2 /\ procs[handle[3][2]].code = 1
    /\ procs[handle[3][2]].returncode = 1
    /\ res.value = 2

\* C2: in wait(timeout) on a running combined handle, when left's wait took
\* less than the timeout, right's wait is given the timeout minus the time
\* left's wait took, floored at zero.
C2_BudgetSplit ==
    \A i \in DOMAIN waitLog :
        waitLog[i].elapsed < waitLog[i].timeout
            => waitLog[i].given = Max(waitLog[i].timeout - waitLog[i].elapsed, 0)

\* C3: raw_output(), output() and lines() raise CalledProcessError when the
\* pipeline's status after the wait is not 0, and return what was captured
\* only when it is 0.
C3_CaptureChecksStatus ==
    (res.op \in {"raw_output", "output", "lines"} /\ handle # NoHandle)
        => /\ HReturncode(handle, procs) # 0 => res.outcome = "CalledProcessError"
           /\ res.outcome = "ok" => HReturncode(handle, procs) = 0

\* C4: with_env, | and in_from with a supported source return a new
\* description without raising, start no process and open no file.
C4_CompositionNeverFails ==
    res.op \in {"with_env", "or", "in_from"}
        => /\ res.outcome = "ok"
           /\ procs = <<>>
           /\ fds = <<NewFd("stream")>>

\* The file objects a handle gives its caller.
Exposed(h, ps) == {HStdin(h, ps), HStdout(h, ps), HStderr(h, ps)} \ {None}

\* C5: once spawn has returned, every pipe end the parent holds is either the
\* handle's stdin, stdout or stderr, or has been closed exactly once; none is
\* closed twice, also after raw_output() has closed the handle's stdout.
C5_PipeEndsOwned ==
    handle # NoHandle
        => \A k \in DOMAIN fds :
              fds[k].kind = "pipe"
                  => /\ fds[k].closes <= 1
                     /\ k \notin Exposed(handle, procs) => fds[k].closes = 1

\* The node of description d at path, and the handle its spawn returned: an
\* input wrapper returns the handle of the pipeline it wraps.
RECURSIVE NodeAt(_, _)
NodeAt(d, path) ==
    IF path = <<>> THEN d
    ELSE IF d[1] = "comb" THEN NodeAt(d[1 + path[1]], Tail(path))
    ELSE NodeAt(d[3], Tail(path))

RECURSIVE HandleAt(_, _, _)
HandleAt(d, h, path) ==
    IF path = <<>> THEN h
    ELSE IF d[1] = "comb" THEN HandleAt(d[1 + path[1]], h[1 + path[1]], Tail(path))
    ELSE HandleAt(d[3], h, Tail(path))

IsPrefix(p, q) == Len(p) <= Len(q) /\ SubSeq(q, 1, Len(p)) = p

Last(seq) == seq[Len(seq)]

\* C6: in every spawn of a combined pipeline, left is spawned before right,
\* with the caller's stdin and stderr and PIPE as stdout; right is spawned with
\* the pipe left writes to as stdin and the caller's stdout and stderr; the
\* handle's stdin is left's, its stdout and stderr are right's.
C6_CombinedWiring ==
    \A i \in DOMAIN spawnLog :
        LET e == spawnLog[i] IN
        NodeAt(desc, e.path)[1] = "comb" =>
          /\ i + 1 \in DOMAIN spawnLog
                => spawnLog[i + 1] = [path |-> e.path \o <<1>>, stdin |-> e.stdin,
                                      stdout |-> PIPE, stderr |-> e.stderr]
          /\ \A j \in DOMAIN spawnLog :
                spawnLog[j].path = e.path \o <<2>> =>
                  /\ \A k \in DOMAIN spawnLog :
                        IsPrefix(e.path \o <<1>>, spawnLog[k].path) => k < j
                  /\ \E k \in DOMAIN spawnLog : spawnLog[k].path = e.path \o <<1>>
                  /\ spawnLog[j].stdout = e.stdout
                  /\ spawnLog[j].stderr = e.stderr
                  /\ spawnLog[j].stdin \in DOMAIN fds
                  /\ fds[spawnLog[j].stdin].kind = "pipe"
                  /\ \E p \in DOMAIN procs : procs[p].stdout = spawnLog[j].stdin
          /\ handle # NoHandle =>
                LET h == HandleAt(desc, handle, e.path) IN
                /\ h[1] = "running"
                /\ \E j \in DOMAIN spawnLog :
                      /\ spawnLog[j].path = e.path \o <<2>>
                      /\ spawnLog[j].stdin = HStdout(h[2], procs)
                      /\ procs[Last(Pids(h[2]))].cstdout = spawnLog[j].stdin
                /\ \A a \in DOMAIN Pids(h[2]), b \in DOMAIN Pids(h[3]) :
                      Pids(h[2])[a] < Pids(h[3])[b]
                /\ h[5] = HStdin(h[2], procs)
                /\ h[6] = HStdout(h[3], procs)
                /\ h[7] = HStderr(h[3], procs)

C6_Witness ==
    /\ phase = "running"
    /\ desc = CombinedPipeline(CmdA, CombinedPipeline(CmdB, CmdC))
    /\ handle[5] # None /\ handle[6] # None /\ handle[7] # None
    /\ procs[2].cstdin = procs[1].stdout
    /\ procs[3].cstdin = procs[2].stdout

\* The left-biased combination of the return codes recorded for the children
\* of a handle, None when the deciding one is not recorded.
RECURSIVE Recorded(_, _)
Recorded(h, ps) ==
    IF h[1] = "popen" THEN ps[h[2]].returncode
    ELSE LET l == Recorded(h[2], ps) IN
         IF l # None /\ l # 0 THEN l ELSE Recorded(h[3], ps)

\* The first child, left to right, recorded with a return code other than 0.
FirstNonzero(h, ps) ==
    LET pids == Pids(h)
        bad == {i \in DOMAIN pids : ps[pids[i]].returncode \notin {None, 0}}
    IN IF bad = {} THEN None
       ELSE pids[CHOOSE i \in bad : \A j \in bad : i <= j]

\* C7: check_return_code on a running combined handle raises exactly when the
\* combined code is not 0, and then raises the error of the first child, left
\* to right, whose code is not 0; so too for nested handles.
C7_CheckRaisesFirstNonzero ==
    (res.op = "check" /\ handle[1] = "running") =>
        LET raised == res.outcome = "CalledProcessError" IN
        /\ raised <=> Recorded(handle, procs) \notin {None, 0}
        /\ handle[4] # None => (raised <=> handle[4] # 0)
        /\ raised =>
              /\ res.pid = FirstNonzero(handle, procs)
              /\ res.code = procs[res.pid].returncode
              /\ res.code = Recorded(handle, procs)
              /\ handle[4] # None => res.code = handle[4]

C7_Witness ==
    /\ res.op = "check" /\ res.outcome = "CalledProcessError"
    /\ handle[1] = "running" /\ handle[2][1] = "running"
    /\ handle[2][4] = 0
    /\ res.pid = 3 /\ res.code = 2 /\ handle[4] = 2

\* C8: rendering a pipeline spawns it with all three streams inherited, waits
\* until every stage has exited and only then checks: it raises
\* CalledProcessError exactly when some stage exited with a code other than 0.
C8_ReprWaitsThenChecks ==
    res.op = "repr" =>
        /\ spawnLog[1] = [path |-> <<>>, stdin |-> None, stdout |-> None, stderr |-> None]
        /\ handle = NoHandle <=> res.outcome \notin {"ok", "CalledProcessError"}
        /\ handle # NoHandle =>
              /\ \A p \in DOMAIN procs :
                    procs[p].state = "exited" /\ procs[p].returncode = procs[p].code
              /\ res.outcome = "CalledProcessError"
                    <=> \E p \in DOMAIN procs : procs[p].code # 0
              /\ res.outcome = "CalledProcessError"
                    => res.pid = FirstNonzero(handle, procs)

C8_Witness ==
    /\ res.op = "repr" /\ res.outcome = "CalledProcessError"
    /\ handle[1] = "running"
    /\ procs[1].code = 0 /\ procs[2].code = 1

\* The description (x | y) | z regrouped as x | (y | z).
RightAssoc(d) == CombinedPipeline(d[2][2], CombinedPipeline(d[2][3], d[3]))

\* spawn of description d from the state and with the redirections of the
\* spawn that was made.
Respawn(d) ==
    Spawn(d, spawnLog[1].stdin, spawnLog[1].stdout, spawnLog[1].stderr,
          SpawnState(<<>>, <<NewFd("stream")>>, 0, <<>>), 0, <<>>)

\* What each process was started with.
Wiring(ps) ==
    [p \in DOMAIN ps |-> [ps[p] EXCEPT !.state = "running", !.code = None,
                                       !.returncode = None]]

OpenFds(fs) == {k \in DOMAIN fs : fs[k].closes = 0}

\* Freshly spawned processes in the state of exit of the processes ps.
ExitedAs(fresh, ps) ==
    [p \in DOMAIN fresh |-> [fresh[p] EXCEPT !.state = ps[p].state, !.code = ps[p].code]]

PollNow(r) == Poll(World(ExitedAs(r.st.procs, procs), NoExit(procs)), r.h).ret

\* C9: spawning (x | y) | z and spawning x | (y | z) start the same stages in
\* the same order with the same wiring, leave the same pipe ends open in the
\* parent, give the caller the same streams, and combine every triple of exit
\* codes to the same code.
C9_PipeAssociative ==
    (phase = "running" /\ desc[1] = "comb" /\ desc[2][1] = "comb") =>
        LET l == Respawn(desc)
            r == Respawn(RightAssoc(desc))
        IN /\ r.exc = ""
           /\ Wiring(procs) = Wiring(r.st.procs)
           /\ \A p \in DOMAIN procs : p > 1 => procs[p].cstdin = procs[p - 1].stdout
           /\ OpenFds(fds) = OpenFds(r.st.fds)
           /\ Exposed(handle, procs) = Exposed(r.h, r.st.procs)
           /\ HStdin(handle, procs) = HStdin(r.h, r.st.procs)
           /\ HStdout(handle, procs) = HStdout(r.h, r.st.procs)
           /\ HStderr(handle, procs) = HStderr(r.h, r.st.procs)
           /\ PollNow(l) = PollNow(r)
           /\ (AllExited(handle, procs) /\ handle[4] # None) => handle[4] = PollNow(r)

C9_Witness ==
    /\ phase = "running"
    /\ desc = CombinedPipeline(CombinedPipeline(CmdA, CmdB), CmdC)
    /\ AllExited(handle, procs)
    /\ procs[1].code = 0 /\ procs[2].code = 2 /\ procs[3].code = 1
    /\ handle[4] = 2
    /\ HStdout(handle, procs) # None

\* The spawn() calls made on a file-input pipeline whose file exists.
FileSpawns ==
    {i \in DOMAIN spawnLog :
        /\ NodeAt(desc, spawnLog[i].path)[1] = "file"
        /\ NodeAt(desc, spawnLog[i].path)[2] \in ExistingFiles}

\* C10: each spawn of a file-input pipeline opens its own file, passes it as
\* stdin to the inner pipeline's spawn with stdout and stderr unchanged, and
\* has closed it when it returns and when it raises.
C10_FileClosedOnAllPaths ==
    phase \notin {"build", "ready"} =>
        /\ \A k \in DOMAIN fds : fds[k].kind = "file" => fds[k].closes = 1
        /\ Cardinality({k \in DOMAIN fds : fds[k].kind = "file"}) = Cardinality(FileSpawns)
        /\ \A i \in FileSpawns :
              /\ i + 1 \in DOMAIN spawnLog
              /\ spawnLog[i + 1].path = spawnLog[i].path \o <<1>>
              /\ spawnLog[i + 1].stdin \in DOMAIN fds
              /\ fds[spawnLog[i + 1].stdin].kind = "file"
              /\ spawnLog[i + 1].stdout = spawnLog[i].stdout
              /\ spawnLog[i + 1].stderr = spawnLog[i].stderr

C10_Witness ==
    /\ phase = "failed" /\ res.outcome = "OSError"
    /\ desc = FileInputPipeline("data", CombinedPipeline(CmdA, CmdB))
    /\ Len(procs) = 1
    /\ \E k \in DOMAIN fds : fds[k].kind = "file" /\ fds[k].closes = 1

\* C11: with_env(E) on a command pipeline returns a command pipeline with the
\* same argv whose env is exactly E, whatever env it had before; with_env(E) on
\* a combined pipeline returns a combined pipeline with the same stages in
\* which every command stage, at any depth, has env exactly E.
C11_WithEnvOverlay ==
    [][ \A E \in EnvArgs \ {NoEnv} :
          (DoWithEnv(E, {}) /\ desc[1] \in {"cmd", "comb"}) =>
              /\ res'.outcome = "ok"
              /\ desc'[1] = desc[1]
              /\ Len(Stages(desc')) = Len(Stages(desc))
              /\ \A i \in DOMAIN Stages(desc') :
                    /\ Stages(desc')[i][2] = Stages(desc)[i][2]
                    /\ Stages(desc')[i][3] = E ]_vars

\* C14: in_from wraps self in a file-input pipeline when the source is a path,
\* returns source | self when the source is a pipeline, wraps self in a
\* stream-input pipeline when the source is a stream, a descriptor or None, and
\* raises TypeError for any other source, returning no pipeline.
C14_InFromDispatch ==
    [][ /\ \A src \in PathSources :
              DoInFromPath(src)
                  => res'.outcome = "ok" /\ desc' = <<"file", src[2], desc>>
        /\ \A src \in PipelineSources :
              DoInFromPipeline(src)
                  => res'.outcome = "ok" /\ desc' = <<"comb", src[2], desc>>
        /\ \A src \in StreamSources :
              DoInFromStream(src)
                  => res'.outcome = "ok" /\ desc' = <<"stream", src[2], desc>>
        /\ \A src \in OtherSources :
              DoInFromOther(src)
                  => res'.outcome = "TypeError" /\ desc' = desc ]_vars

C14_Witness ==
    /\ res.op = "in_from" /\ res.outcome = "ok"
    /\ desc[1] = "comb" /\ desc[2] = CmdB
    /\ desc[3][1] = "file" /\ desc[3][2] = "data" /\ desc[3][3] = CmdC

\* The file objects a process was started with or gave its parent.
ProcFds(pr) == {pr.cstdin, pr.cstdout, pr.cstderr, pr.stdin, pr.stdout, pr.stderr} \ {None}

ChildEnviron(pr) == IF pr.env.isNone THEN environ ELSE pr.env.vars

\* The env of the command stage a process was started for.
StageEnv(pr) ==
    LET st == Stages(desc)
        i == CHOOSE j \in DOMAIN st : st[j][2] = pr.argv
    IN IF st[i][3].isNone THEN {} ELSE st[i][3].vars

\* C13: whatever is spawned and however often, os.environ stays as it was, and
\* each child runs in os.environ with the variables of its stage's env set to
\* the values env gives them and every other variable kept.
C13_AmbientUntouched ==
    /\ environ = Env0
    /\ \A p \in DOMAIN procs :
          LET got == ChildEnviron(procs[p])
              overlay == StageEnv(procs[p])
          IN /\ \A kv \in overlay : kv \in got
             /\ \A kv \in Env0 : (\A o \in overlay : o[1] # kv[1]) => kv \in got
             /\ \A kv \in got :
                   \/ kv \in overlay
                   \/ kv \in Env0 /\ \A o \in overlay : o[1] # kv[1]

C13_Witness ==
    /\ Spawns = 2
    /\ Len(procs) = 6
    /\ procs[3].env = Dict({<<"HOME", "/root">>, <<"LANG", "en">>})
    /\ procs[6].env = procs[3].env
    /\ procs[4].env = NoEnv

\* C15: a combined code that poll() or wait() returned or cached means that
\* every child of the handle has exited; wait() does not return while a child
\* is still running, whatever calls came before.
C15_ResolvedMeansDone ==
    handle[1] = "running" =>
        /\ handle[4] # None => AllExited(handle, procs)
        /\ (res.op \in {"poll", "wait"} /\ res.outcome = "ok" /\ res.value # None)
              => AllExited(handle, procs)

\* C16: a wait(timeout) that raises TimeoutExpired leaves the handle's
\* returncode unset and ends no child (a child that has exited has exited with
\* a code of its own); a wait made next, after every child has exited, returns
\* the left-biased combination of the exit codes and caches it.
C16_TimeoutRecoverable ==
    [][ /\ (handle[1] = "running" /\ handle[4] = None
               /\ res'.op = "wait" /\ res'.outcome = "TimeoutExpired")
            => /\ handle'[4] = None
               /\ \A p \in DOMAIN procs' :
                     procs'[p].state = "exited" => procs'[p].code \in Codes
        /\ (handle[1] = "running" /\ res.op = "wait" /\ res.outcome = "TimeoutExpired"
               /\ AllExited(handle, procs) /\ res'.op = "wait")
            => /\ res'.outcome = "ok"
               /\ res'.value = LeftBiased(handle, procs)
               /\ handle'[4] = res'.value ]_vars

C16_Witness ==
    /\ res.op = "wait" /\ res.outcome = "TimeoutExpired"
    /\ handle[1] = "running" /\ handle[4] = None
    /\ AllExited(handle, procs)
    /\ LeftBiased(handle, procs) = 2
    /\ \E p \in DOMAIN procs : procs[p].returncode = None

\* C17: once a combined handle has a returncode, it keeps it: every later
\* poll() and wait() returns it, makes no timed wait, and records no child's
\* return code that was not recorded before.
C17_CachedCodeStable ==
    [][ (handle[1] = "running" /\ handle[4] # None) =>
            /\ handle'[4] = handle[4]
            /\ \A p \in DOMAIN procs : procs'[p].returncode = procs[p].returncode
            /\ res'.op \in {"poll", "wait"} =>
                  /\ res'.outcome = "ok"
                  /\ res'.value = handle[4]
                  /\ waitLog' = <<>> ]_vars

C17_Witness ==
    /\ res.op = "wait" /\ res.outcome = "ok"
    /\ handle[1] = "running" /\ handle[4] = 2 /\ res.value = 2
    /\ AllExited(handle, procs)
    /\ \E p \in DOMAIN procs : procs[p].returncode = None

\* C18: poll() on a combined handle without a returncode does not block and
\* lets no time pass; while left has not exited it returns None, records no
\* return code on right's side and sets no returncode; when left has exited
\* with code 0 and right has not exited it returns None as well.
C18_PollLeftFirst ==
    [][ (DoPoll /\ handle[1] = "running" /\ handle[4] = None) =>
            /\ phase' = "running"
            /\ \A p \in DOMAIN procs : procs'[p].state = procs[p].state
            /\ ~AllExited(handle[2], procs) =>
                  /\ res'.value = None
                  /\ handle'[4] = None
                  /\ \A i \in DOMAIN Pids(handle[3]) :
                        procs'[Pids(handle[3])[i]].returncode
                            = procs[Pids(handle[3])[i]].returncode
            /\ (AllExited(handle[2], procs) /\ LeftBiased(handle[2], procs) = 0
                   /\ ~AllExited(handle[3], procs))
                  => /\ res'.value = None
                     /\ handle'[4] = None ]_vars

\* C19: when spawn raises, no process it started is still running and no
\* pipe end it created is still open in the parent.
C19_NoOrphanOnFailure ==
    (phase = "failed" /\ res.op = "spawn") =>
        /\ \A p \in DOMAIN procs : procs[p].state # "running"
        /\ \A k \in DOMAIN fds : fds[k].kind = "pipe" => fds[k].closes >= 1

\* C20: output() of a combined pipeline, of any nesting, whose stages exit
\* once their stdin is at end of stream or their stdout pipe has no reader
\* left, returns in the end, when the children are scheduled fairly: once
\* spawned, the read to end of stream and the waits on left and right all end.
C20_CaptureTerminates ==
    (phase = "reading" /\ desc[1] = "comb") ~> (phase = "done" /\ res.op = "output")

C20_Witness ==
    /\ phase = "done" /\ res.op = "output" /\ res.outcome = "ok"
    /\ desc = CombinedPipeline(CombinedPipeline(CmdA, CmdB), CmdC)
    /\ res.text = <<104, 105, 10>>
    /\ \A p \in DOMAIN procs : procs[p].returncode = procs[p].code
    /\ \A k \in DOMAIN fds : fds[k].kind = "pipe" => fds[k].closes = 1
    /\ procs[1].code = 1

====
